---- MODULE Spec2Model ----
(***************************************************************************)
(* Model of the KEDA weather scaler (src/weather_scaler.go).               *)
(*                                                                         *)
(* Strings the code parses (threshold, host) are sequences of one-         *)
(* character strings, so that strconv.Atoi and url.ParseRequestURI are     *)
(* computed character by character.  Strings the code only compares        *)
(* (preference, metric names, error identities) are TLA+ strings.          *)
(* float64 temperatures are integers counting tenths of a degree           *)
(* (25.7 is 257); every value used is far inside the range of int.         *)
(***************************************************************************)
EXTENDS Integers, Sequences, FiniteSets, TLC

VARIABLES
    config,      \* config.TriggerMetadata handed to NewWeatherScaler
    phase,       \* "start" | "built" | "failed" | "crashed"
    scaler,      \* the *weatherMetadata of the returned scaler, or NoScaler
    newErr,      \* the error NewWeatherScaler returned ("nil" when none)
    call,        \* per caller: the IsActive / GetMetrics call in flight
    last,        \* the call that completed most recently, with its response
    metricSpec,  \* what GetMetricSpecForScaling returned, NotCalled before
    calls,       \* number of IsActive + GetMetrics calls started
    gets         \* number of httpClient.Get calls issued

vars == <<config, phase, scaler, newErr, call, last, metricSpec, calls, gets>>

-----------------------------------------------------------------------------
(* Bounds and input sets *)

MaxReadings == 2     \* longest consolidated_weather list in a response
MaxCalls == 2        \* calls started in one behaviour

Callers == {"c1", "c2"}          \* host goroutines calling the scaler
MetricNames == {"weather", "m1"} \* metricName arguments of GetMetrics

(* val, ok := TriggerMetadata[key]: a missing key reads as "" with ok false *)
NoKey == [ok |-> FALSE, val |-> <<>>]
NoPreference == [ok |-> FALSE, val |-> ""]
Key(v) == [ok |-> TRUE, val |-> v]

(* a JSON null element of consolidated_weather: a nil *WeatherData *)
Null == [isNil |-> TRUE, min_temp |-> 0, max_temp |-> 0, the_temp |-> 0]

ThresholdStrings ==
    { <<>>, <<"x">>, <<"-">>, <<"0">>, <<"5">>, <<"-", "5">>, <<"2", "0">> }

HostStrings ==
    { <<>>, <<"h">>, <<":", "h">>, <<"/", "w">>,
      <<"h", ":", "/", "/", "h", ":", "w">>,
      <<"h", ":", "/", "/", "h", "/", "w">> }

PreferenceStrings == { "", "MinTemp", "MaxTemp", "TheTemp", "Foo" }

Configs ==
    [ threshold  : { Key(v) : v \in ThresholdStrings } \cup {NoKey},
      host       : { Key(v) : v \in HostStrings } \cup {NoKey},
      preference : { Key(v) : v \in PreferenceStrings } \cup {NoPreference} ]

(* the configurations the queries are exercised on: an accepted host, the *)
(* thresholds 0, 5 and -5, every preference                                *)
CallConfigs ==
    [ threshold  : { Key(<<"0">>), Key(<<"5">>), Key(<<"-", "5">>) },
      host       : { Key(<<"h", ":", "/", "/", "h", "/", "w">>) },
      preference : { Key(v) : v \in PreferenceStrings } ]

(* WeatherData records, fields in tenths of a degree *)
Readings ==
    { [isNil |-> FALSE, min_temp |->  59, max_temp |-> 257, the_temp |-> 152],
      [isNil |-> FALSE, min_temp |-> -59, max_temp |->  50, the_temp |->  -5] }

RECURSIVE SeqsUpTo(_, _)
SeqsUpTo(S, n) ==
    IF n = 0 THEN { <<>> }
    ELSE LET shorter == SeqsUpTo(S, n - 1)
         IN  shorter \cup { Append(s, x) : s \in { t \in shorter : Len(t) = n - 1 }, x \in S }

(* What one GET can come back with *)
Responses ==
    { [kind |-> k, list |-> <<>>] : k \in {"GetErr", "ReadErr", "BadBody"} }
    \cup { [kind |-> "Body", list |-> l] : l \in SeqsUpTo(Readings \cup {Null}, MaxReadings) }

-----------------------------------------------------------------------------
(* strconv.Atoi *)

DigitVal == [ c \in {"0", "1", "2", "5"} |-> CASE c = "0" -> 0 [] c = "1" -> 1
                                               [] c = "2" -> 2 [] c = "5" -> 5 ]

IsDigit(c) == c \in DOMAIN DigitVal
IsLetter(c) == c \in {"h", "w", "x"}

RECURSIVE DigitsValue(_)
DigitsValue(s) ==
    IF s = <<>> THEN 0
    ELSE 10 * DigitsValue(SubSeq(s, 1, Len(s) - 1)) + DigitVal[s[Len(s)]]

(* strconv.Atoi(val): an optional sign, then one or more decimal digits *)
Atoi(val) ==
    LET signed == val # <<>> /\ val[1] \in {"-", "+"}
        digits == IF signed THEN Tail(val) ELSE val
    IN  IF digits = <<>> \/ \E i \in 1..Len(digits) : ~IsDigit(digits[i])
        THEN [err |-> "SyntaxErr", n |-> 0]
        ELSE [err |-> "nil",
              n   |-> IF signed /\ val[1] = "-" THEN -DigitsValue(digits)
                      ELSE DigitsValue(digits)]

-----------------------------------------------------------------------------
(* url.ParseRequestURI, for strings over letters, digits, ':' and '/' *)

HasPrefix(s, p) == Len(s) >= Len(p) /\ SubSeq(s, 1, Len(p)) = p

RECURSIVE ScanScheme(_, _)
ScanScheme(raw, i) ==
    IF i > Len(raw) THEN [scheme |-> <<>>, rest |-> raw, err |-> "nil"]
    ELSE IF IsLetter(raw[i]) THEN ScanScheme(raw, i + 1)
    ELSE IF IsDigit(raw[i]) THEN
        IF i = 1 THEN [scheme |-> <<>>, rest |-> raw, err |-> "nil"]
        ELSE ScanScheme(raw, i + 1)
    ELSE IF raw[i] = ":" THEN
        IF i = 1 THEN [scheme |-> <<>>, rest |-> <<>>, err |-> "MissingScheme"]
        ELSE [scheme |-> SubSeq(raw, 1, i - 1),
              rest   |-> SubSeq(raw, i + 1, Len(raw)),
              err    |-> "nil"]
    ELSE [scheme |-> <<>>, rest |-> raw, err |-> "nil"]

getScheme(raw) == ScanScheme(raw, 1)

(* the authority is what follows "//" up to the next '/' *)
Authority(rest) ==
    LET after == SubSeq(rest, 3, Len(rest))
        cut   == { i \in 1..Len(after) : after[i] = "/" }
        stop  == IF cut = {} THEN Len(after) + 1
                 ELSE CHOOSE i \in cut : \A j \in cut : i <= j
    IN  SubSeq(after, 1, stop - 1)

(* parseHost: what follows the last ':' of the host must be a decimal port *)
validOptionalPort(host) ==
    LET colons == { i \in 1..Len(host) : host[i] = ":" }
        lastc  == CHOOSE i \in colons : \A j \in colons : j <= i
    IN  colons = {} \/ \A i \in (lastc + 1)..Len(host) : IsDigit(host[i])

ParseRequestURI(raw) ==
    LET s == getScheme(raw)
    IN  IF raw = <<>> THEN "EmptyURL"
        ELSE IF s.err # "nil" THEN s.err
        ELSE IF ~HasPrefix(s.rest, <<"/">>)
             THEN IF s.scheme # <<>> THEN "nil" ELSE "InvalidURIForRequest"
        ELSE IF s.scheme # <<>> /\ HasPrefix(s.rest, <<"/", "/">>)
                /\ ~validOptionalPort(Authority(s.rest))
             THEN "InvalidPort"
        ELSE "nil"

-----------------------------------------------------------------------------
(* Construction *)

NoScaler == [threshold |-> 0, host |-> <<>>, preference |-> ""]

(* parseWeatherMetadata: [err, meta] *)
parseWeatherMetadata(cfg) ==
    LET t == IF cfg.threshold.ok /\ cfg.threshold.val # <<>>
             THEN Atoi(cfg.threshold.val)
             ELSE [err |-> "nil", n |-> 0]
    IN  IF t.err # "nil" THEN [err |-> "threshold", meta |-> NoScaler]
        ELSE IF ~cfg.host.ok THEN [err |-> "no host", meta |-> NoScaler]
        ELSE IF ParseRequestURI(cfg.host.val) # "nil"
             THEN [err |-> "invalid URL", meta |-> NoScaler]
        ELSE IF cfg.preference.val = "" THEN [err |-> "no preference", meta |-> NoScaler]
        ELSE [err  |-> "nil",
              meta |-> [threshold  |-> t.n,
                        host       |-> cfg.host.val,
                        preference |-> cfg.preference.val]]

-----------------------------------------------------------------------------
(* Fetch and extract *)

(* mutant: rounds to the nearest integer *)
IntOfFloatRounded(t) == IF t >= 0 THEN (t + 5) \div 10 ELSE -((5 - t) \div 10)

(* int(float64): the fraction is discarded, towards zero *)
IntOfFloat(t) == IF t >= 0 THEN t \div 10 ELSE -((-t) \div 10)

(* what getWeather returns beside a fetch or decode error *)
FetchFailedTemp == 100

(* getJSONData: the error of Get, ReadAll or Unmarshal, else the decoded list *)
getJSONData(resp) ==
    IF resp.kind = "Body" THEN [err |-> "nil", list |-> resp.list]
    ELSE [err |-> resp.kind, list |-> <<>>]

(* mutant: a failed fetch leaves temp at its zero value *)
getWeatherZeroOnError(meta, resp) ==
    LET d    == getJSONData(resp)
        pick == meta.preference \in {"MinTemp", "MaxTemp", "TheTemp"}
    IN  IF d.err # "nil" THEN [temp |-> 0, err |-> d.err, panic |-> FALSE]
        ELSE IF ~pick THEN [temp |-> 0, err |-> "nil", panic |-> FALSE]
        ELSE IF d.list = <<>> \/ d.list[1].isNil
             THEN [temp |-> 0, err |-> "nil", panic |-> TRUE]
        ELSE [temp  |-> IntOfFloat(CASE meta.preference = "MinTemp" -> d.list[1].min_temp
                                    [] meta.preference = "MaxTemp" -> d.list[1].max_temp
                                    [] meta.preference = "TheTemp" -> d.list[1].the_temp),
              err   |-> "nil",
              panic |-> FALSE]

(* mutant: the MaxTemp case reads MinTemp *)
getWeatherWrongField(meta, resp) ==
    LET d    == getJSONData(resp)
        pick == meta.preference \in {"MinTemp", "MaxTemp", "TheTemp"}
    IN  IF d.err # "nil" THEN [temp |-> FetchFailedTemp, err |-> d.err, panic |-> FALSE]
        ELSE IF ~pick THEN [temp |-> 0, err |-> "nil", panic |-> FALSE]
        ELSE IF d.list = <<>> \/ d.list[1].isNil
             THEN [temp |-> 0, err |-> "nil", panic |-> TRUE]
        ELSE [temp  |-> IntOfFloat(CASE meta.preference = "MinTemp" -> d.list[1].min_temp
                                    [] meta.preference = "MaxTemp" -> d.list[1].min_temp
                                    [] meta.preference = "TheTemp" -> d.list[1].the_temp),
              err   |-> "nil",
              panic |-> FALSE]

(* getWeather: [temp, err, panic]; indexing List[0] of an empty list and    *)
(* reading a field through a nil element both panic                         *)
getWeather(meta, resp) ==
    LET d    == getJSONData(resp)
        pick == meta.preference \in {"MinTemp", "MaxTemp", "TheTemp"}
    IN  IF d.err # "nil" THEN [temp |-> FetchFailedTemp, err |-> d.err, panic |-> FALSE]
        ELSE IF ~pick THEN [temp |-> 0, err |-> "nil", panic |-> FALSE]
        ELSE IF d.list = <<>> \/ d.list[1].isNil
             THEN [temp |-> 0, err |-> "nil", panic |-> TRUE]
        ELSE [temp  |-> IntOfFloat(CASE meta.preference = "MinTemp" -> d.list[1].min_temp
                                    [] meta.preference = "MaxTemp" -> d.list[1].max_temp
                                    [] meta.preference = "TheTemp" -> d.list[1].the_temp),
              err   |-> "nil",
              panic |-> FALSE]

-----------------------------------------------------------------------------
(* The scaler's queries *)

(* mutant: a value equal to the threshold counts as active *)
IsActiveAtThreshold(meta, resp) ==
    LET w == getWeather(meta, resp)
    IN  IF w.panic THEN [active |-> FALSE, err |-> "nil", panic |-> TRUE]
        ELSE IF w.err # "nil" THEN [active |-> FALSE, err |-> w.err, panic |-> FALSE]
        ELSE [active |-> w.temp >= meta.threshold, err |-> "nil", panic |-> FALSE]

(* mutant: the error of getWeather is dropped, as GetMetrics drops it *)
IsActiveDropsError(meta, resp) ==
    LET w == getWeather(meta, resp)
    IN  IF w.panic THEN [active |-> FALSE, err |-> "nil", panic |-> TRUE]
        ELSE [active |-> w.temp > meta.threshold, err |-> "nil", panic |-> FALSE]

(* IsActive: [active, err, panic] *)
IsActive(meta, resp) ==
    LET w == getWeather(meta, resp)
    IN  IF w.panic THEN [active |-> FALSE, err |-> "nil", panic |-> TRUE]
        ELSE IF w.err # "nil" THEN [active |-> FALSE, err |-> w.err, panic |-> FALSE]
        ELSE [active |-> w.temp > meta.threshold, err |-> "nil", panic |-> FALSE]

(* GetMetrics: [metrics, err, panic]; the error of getWeather is dropped *)
GetMetrics(meta, metricName, resp) ==
    LET w == getWeather(meta, resp)
    IN  IF w.panic THEN [metrics |-> <<>>, err |-> "nil", panic |-> TRUE]
        ELSE [metrics |-> <<[MetricName |-> metricName, Value |-> w.temp]>>,
              err     |-> "nil",
              panic   |-> FALSE]

(* kedautil.NormalizeString: '/', '.', ':' and '%' become '-' *)
NormalizeString(s) ==
    [ i \in 1..Len(s) |-> IF s[i] \in {"/", ".", ":", "%"} THEN "-" ELSE s[i] ]

WeatherName == <<"w", "e", "a", "t", "h", "e", "r">>

(* mutant: the target quantity is built from a zero value *)
GetMetricSpecForScalingZeroTarget(meta) ==
    << [Type         |-> "External",
        Name         |-> NormalizeString(WeatherName),
        TargetType   |-> "AverageValue",
        AverageValue |-> 0] >>

(* GetMetricSpecForScaling: the list of metric descriptors *)
GetMetricSpecForScaling(meta) ==
    << [Type         |-> "External",
        Name         |-> NormalizeString(WeatherName),
        TargetType   |-> "AverageValue",
        AverageValue |-> meta.threshold] >>

-----------------------------------------------------------------------------
(* State machine *)

Idle == [kind |-> "idle", name |-> "", gets |-> 0]

NoCall ==
    [kind |-> "none", name |-> "", resp |-> [kind |-> "GetErr", list |-> <<>>],
     gets |-> 0, active |-> FALSE, metrics |-> <<>>, err |-> "nil", panic |-> FALSE]

Fresh ==
    /\ phase = "start"
    /\ scaler = NoScaler
    /\ newErr = "nil"
    /\ call = [c \in Callers |-> Idle]
    /\ last = NoCall
    /\ metricSpec = <<>>
    /\ calls = 0
    /\ gets = 0

Init == config \in CallConfigs /\ Fresh

(* every configuration, for the constructor alone *)
InitNew == config \in Configs /\ Fresh

(* NewWeatherScaler(config) *)
NewWeatherScaler ==
    /\ phase = "start"
    /\ LET r == parseWeatherMetadata(config)
       IN  /\ phase' = IF r.err = "nil" THEN "built" ELSE "failed"
           /\ scaler' = r.meta
           /\ newErr' = r.err
    /\ UNCHANGED <<config, call, last, metricSpec, calls, gets>>

(* caller c enters IsActive: getWeather -> getJSONData -> httpClient.Get *)
StartIsActive(c) ==
    /\ phase = "built"
    /\ call[c].kind = "idle"
    /\ calls < MaxCalls
    /\ call' = [call EXCEPT ![c] = [kind |-> "IsActive", name |-> "", gets |-> 1]]
    /\ calls' = calls + 1
    /\ gets' = gets + 1
    /\ UNCHANGED <<config, phase, scaler, newErr, last, metricSpec>>

(* caller c enters GetMetrics(ctx, metricName, _) *)
StartGetMetrics(c, metricName) ==
    /\ phase = "built"
    /\ call[c].kind = "idle"
    /\ calls < MaxCalls
    /\ call' = [call EXCEPT ![c] = [kind |-> "GetMetrics", name |-> metricName, gets |-> 1]]
    /\ calls' = calls + 1
    /\ gets' = gets + 1
    /\ UNCHANGED <<config, phase, scaler, newErr, last, metricSpec>>

(* mutant: a failed fetch is retried inside the call *)
FinishIsActiveRetry(c, resp) ==
    /\ phase = "built"
    /\ call[c].kind = "IsActive"
    /\ LET r == IsActive(scaler, resp)
       IN  IF r.err # "nil"
           THEN /\ call' = [call EXCEPT ![c].gets = @ + 1]
                /\ gets' = gets + 1
                /\ UNCHANGED <<last, phase>>
           ELSE /\ last' = [kind |-> "IsActive", name |-> "", resp |-> resp,
                            gets |-> call[c].gets, active |-> r.active,
                            metrics |-> <<>>, err |-> r.err, panic |-> r.panic]
                /\ phase' = IF r.panic THEN "crashed" ELSE phase
                /\ call' = [call EXCEPT ![c] = Idle]
                /\ UNCHANGED gets
    /\ UNCHANGED <<config, scaler, newErr, metricSpec, calls>>

(* the GET of c's IsActive call comes back with resp and the call returns *)
FinishIsActive(c, resp) ==
    /\ phase = "built"
    /\ call[c].kind = "IsActive"
    /\ LET r == IsActive(scaler, resp)
       IN  /\ last' = [kind |-> "IsActive", name |-> "", resp |-> resp,
                       gets |-> call[c].gets, active |-> r.active,
                       metrics |-> <<>>, err |-> r.err, panic |-> r.panic]
           /\ phase' = IF r.panic THEN "crashed" ELSE phase
    /\ call' = [call EXCEPT ![c] = Idle]
    /\ UNCHANGED <<config, scaler, newErr, metricSpec, calls, gets>>

(* the GET of c's GetMetrics call comes back with resp and the call returns *)
FinishGetMetrics(c, resp) ==
    /\ phase = "built"
    /\ call[c].kind = "GetMetrics"
    /\ LET r == GetMetrics(scaler, call[c].name, resp)
       IN  /\ last' = [kind |-> "GetMetrics", name |-> call[c].name, resp |-> resp,
                       gets |-> call[c].gets, active |-> FALSE,
                       metrics |-> r.metrics, err |-> r.err, panic |-> r.panic]
           /\ phase' = IF r.panic THEN "crashed" ELSE phase
    /\ call' = [call EXCEPT ![c] = Idle]
    /\ UNCHANGED <<config, scaler, newErr, metricSpec, calls, gets>>

(* GetMetricSpecForScaling(): no call into getWeather *)
CallGetMetricSpecForScaling ==
    /\ phase = "built"
    /\ metricSpec' = GetMetricSpecForScaling(scaler)
    /\ UNCHANGED <<config, phase, scaler, newErr, call, last, calls, gets>>

Next ==
    \/ NewWeatherScaler
    \/ \E c \in Callers : StartIsActive(c)
    \/ \E c \in Callers, n \in MetricNames : StartGetMetrics(c, n)
    \/ \E c \in Callers, resp \in Responses : FinishIsActive(c, resp)
    \/ \E c \in Callers, resp \in Responses : FinishGetMetrics(c, resp)
    \/ CallGetMetricSpecForScaling

Spec == Init /\ [][Next]_vars

NextNew == NewWeatherScaler

SpecNew == InitNew /\ [][NextNew]_vars

-----------------------------------------------------------------------------
(* Vocabulary of the properties, stated without the operators above *)

RecognizedPreferences == {"MinTemp", "MaxTemp", "TheTemp"}

(* the field of reading r that preference pref names *)
SelectedField(pref, r) ==
    CASE pref = "MinTemp" -> r.min_temp
      [] pref = "MaxTemp" -> r.max_temp
      [] pref = "TheTemp" -> r.the_temp

(* n is t tenths with the fraction cut off towards zero *)
TruncatesTo(t, n) ==
    \/ t >= 0 /\ 10 * n <= t /\ t < 10 * n + 10
    \/ t < 0 /\ t <= 10 * n /\ 10 * n - 10 < t

Degrees == -30..30

(* the last response decoded and its list starts with a reading *)
HasFirstReading ==
    /\ last.resp.kind = "Body"
    /\ last.resp.list # <<>>
    /\ ~last.resp.list[1].isNil

FetchFailed == last.resp.kind \in {"GetErr", "ReadErr", "BadBody"}

Selected == SelectedField(scaler.preference, last.resp.list[1])

-----------------------------------------------------------------------------
(* C1: construction succeeds if and only if the threshold key is present,  *)
(* non-empty and parses as an integer, the host is accepted as a URI and   *)
(* the preference is non-empty; a failed construction returns no scaler.   *)
C1_ConstructionIffValid ==
    phase # "start" =>
        /\ (newErr = "nil") <=>
              /\ config.threshold.ok
              /\ config.threshold.val # <<>>
              /\ Atoi(config.threshold.val).err = "nil"
              /\ config.host.ok
              /\ ParseRequestURI(config.host.val) = "nil"
              /\ config.preference.val # ""
        /\ newErr # "nil" => scaler = NoScaler

(* C2: with a recognized preference and a response whose list starts with  *)
(* a reading, IsActive returns no error, and true exactly when the selected *)
(* field of the first reading, truncated towards zero, is strictly greater  *)
(* than the threshold.                                                      *)
C2_ActiveIffTruncatedAboveThreshold ==
    (last.kind = "IsActive" /\ scaler.preference \in RecognizedPreferences
        /\ HasFirstReading) =>
        /\ ~last.panic
        /\ last.err = "nil"
        /\ \E n \in Degrees :
              /\ TruncatesTo(Selected, n)
              /\ last.active <=> n > scaler.threshold

C2_Witness ==
    /\ last.kind = "IsActive"
    /\ scaler.preference = "MinTemp"
    /\ scaler.threshold = 5
    /\ Len(last.resp.list) = 2
    /\ last.resp.list[1].min_temp = 59
    /\ last.resp.list[2].min_temp = -59
    /\ ~last.resp.list[1].isNil
    /\ ~last.active

(* C3: when the response decodes to an empty list, IsActive returns an     *)
(* error: it neither panics nor answers from a default value.              *)
C3_EmptyListIsError ==
    (last.kind = "IsActive" /\ last.resp.kind = "Body" /\ last.resp.list = <<>>) =>
        /\ ~last.panic
        /\ last.err # "nil"

C5_SampleIsTruncatedValue ==
    (last.kind = "GetMetrics" /\ scaler.preference \in RecognizedPreferences
        /\ HasFirstReading) =>
        /\ ~last.panic
        /\ last.err = "nil"
        /\ Len(last.metrics) = 1
        /\ last.metrics[1].MetricName = last.name
        /\ TruncatesTo(Selected, last.metrics[1].Value)
        /\ IsActive(scaler, last.resp).active <=> last.metrics[1].Value > scaler.threshold

C5_Witness ==
    /\ last.kind = "GetMetrics"
    /\ last.name = "m1"
    /\ scaler.preference = "MaxTemp"
    /\ scaler.threshold = 5
    /\ HasFirstReading
    /\ last.resp.list[1].max_temp = 257
    /\ last.metrics = <<[MetricName |-> "m1", Value |-> 25]>>

(* C6: a GetMetricSpecForScaling call issues no GET and returns exactly    *)
(* one external average-value descriptor named "weather" whose target      *)
(* equals the threshold, whatever calls came before it.                    *)
C6_MetricSpecTargetIsThreshold ==
    [][ metricSpec' # metricSpec =>
           /\ gets' = gets
           /\ calls' = calls
           /\ metricSpec' = << [Type         |-> "External",
                                Name         |-> <<"w", "e", "a", "t", "h", "e", "r">>,
                                TargetType   |-> "AverageValue",
                                AverageValue |-> scaler.threshold] >> ]_vars

C6_Witness ==
    /\ metricSpec # <<>>
    /\ metricSpec[1].AverageValue = 0
    /\ config.threshold = Key(<<"0">>)
    /\ last.kind = "IsActive"
    /\ FetchFailed
    /\ calls = 2

(* C7: when the fetch, the body read or the decode fails, IsActive returns *)
(* false together with that error.                                         *)
C7_IsActivePropagatesError ==
    (last.kind = "IsActive" /\ FetchFailed) =>
        /\ ~last.panic
        /\ last.err = last.resp.kind
        /\ last.active = FALSE

C7_Witness ==
    /\ last.kind = "IsActive"
    /\ last.resp.kind = "ReadErr"
    /\ last.err = "ReadErr"
    /\ scaler.threshold < 0

(* C8: every scaler the constructor returns has one of the three           *)
(* recognized preferences.                                                 *)
C8_PreferenceIsRecognized ==
    phase = "built" => scaler.preference \in RecognizedPreferences

(* C9 as claimed: on a scaler with a negative threshold every IsActive     *)
(* call returns true.                                                      *)
C9_NegativeThresholdAlwaysActive ==
    (scaler.threshold < 0 /\ last.kind = "IsActive") => last.active

(* C9 amended: on a scaler with a negative threshold, IsActive returns     *)
(* true without error whenever the response decodes and the extracted      *)
(* value is not negative: the selected field of the first reading          *)
(* truncates to 0 or more, or the preference selects no field.             *)
C9_NegativeThresholdActiveWhenNotNegative ==
    (/\ scaler.threshold < 0
     /\ last.kind = "IsActive"
     /\ last.resp.kind = "Body"
     /\ \/ scaler.preference \notin RecognizedPreferences
        \/ HasFirstReading /\ Selected > -10) =>
        /\ last.active
        /\ last.err = "nil"
        /\ ~last.panic

C9_Witness ==
    /\ scaler.threshold = -5
    /\ last.kind = "IsActive"
    /\ scaler.preference = "TheTemp"
    /\ HasFirstReading
    /\ last.resp.list[1].the_temp = -5
    /\ last.active

(* C10: every IsActive or GetMetrics call started has issued exactly one   *)
(* GET, while it is in flight and after it returned, so the GETs issued    *)
(* number the calls started.                                               *)
C10_OneGetPerCall ==
    /\ gets = calls
    /\ \A c \in Callers : call[c].kind # "idle" => call[c].gets = 1
    /\ last.kind # "none" => last.gets = 1
    /\ Cardinality({c \in Callers : call[c].kind # "idle"}) <= calls

C10_Witness ==
    /\ calls = 2
    /\ gets = 2
    /\ last.kind = "IsActive"
    /\ last.resp.kind = "GetErr"
    /\ \E c \in Callers : call[c].kind = "GetMetrics"

====
